---- MODULE Spec2Model ----
(***************************************************************************)
(* The generic socket scheme engine of smolnetd (scheme/socket.rs),        *)
(* specialised to UDP (scheme/udp.rs): handle table, wait queue, event     *)
(* notifier and the UDP protocol adapter with its port set.                *)
(***************************************************************************)
EXTENDS Integers, Sequences, FiniteSets, TLC

VARIABLES
    next_fd,      \* SocketScheme.next_fd
    nulls,        \* SocketScheme.nulls : fd -> NullFile
    files,        \* SocketScheme.files : fd -> SchemeFile
    sockets,      \* the stack's socket set (iface) : SocketHandle -> UDP socket
    port_set,     \* SocketScheme.scheme_data (PortSet)
    wait_queue,   \* SocketScheme.wait_queue : Seq(WaitHandle)
    now,          \* CLOCK_MONOTONIC
    cur_time,     \* notify_sockets' local cur_time
    pc,           \* position inside notify_sockets: "idle" or "walk"; "panicked" once
                  \* the daemon has died
    next_id,      \* number of request packets read from the scheme file so far
    allocated,    \* every handle ID returned by open/dup so far, in order
    out,          \* what the last step wrote to the scheme file and what it handled
    cfg           \* the bounds and input sets of the run (never changes)

vars == <<next_fd, nulls, files, sockets, port_set, wait_queue, now, cur_time,
          pc, next_id, allocated, out, cfg>>

----------------------------------------------------------------------------
(* Constants of the syscall interface used by the code.                    *)

SYS_READ == 570425347
SYS_WRITE == 553648132
SYS_CLASS_FILE == 536870912
SYS_CLASS_PATH == 268435456
SYS_RET_FILE == 1048576
SYS_OPEN == SYS_CLASS_PATH + SYS_RET_FILE + 5
SYS_CLOSE == SYS_CLASS_FILE + 6
SYS_DUP == SYS_CLASS_FILE + SYS_RET_FILE + 41
SYS_FCNTL == SYS_CLASS_FILE + 55
SYS_FEVENT == SYS_CLASS_FILE + 927
SYS_FSYNC == SYS_CLASS_FILE + 118
ENOSYS == 38

EIO == 5
EBADF == 9
EAGAIN == 11
EACCES == 13
EINVAL == 22
EADDRINUSE == 98
EADDRNOTAVAIL == 99
ETIMEDOUT == 110

O_ACCMODE == 196608
O_NONBLOCK == 262144

F_SETFD == 2
F_GETFL == 3
F_SETFL == 4

EVENT_READ == 1
EVENT_WRITE == 2

NSEC_PER_SEC == 1000000000
I32_MAX == 2147483647
TIMESPEC_SIZE == 16

PORT_FIRST == 49152
PORT_LAST == 65535
PRIVILEGED_MAX == 1024
DEFAULT_HOP_LIMIT == 64

----------------------------------------------------------------------------
(* Bounds of the model.                                                    *)

\* capacity, in datagrams, of a socket's rx and of its tx buffer
BufCap == 1
\* the monotonic clock stops advancing at MaxSec seconds
MaxSec == 1
\* handle IDs allocated in a run of the life-cycle specification
MaxAllocLife == 4
\* handle IDs allocated, and read/write/fcntl/fevent requests, in the other runs
MaxAlloc == 2
MaxIo == 3
\* length of every datagram the network delivers
DatagramLen == 2

----------------------------------------------------------------------------
(* Option, results, time.                                                  *)

None == <<>>
Some(x) == <<x>>
IsSome(o) == o # <<>>
Unwrap(o) == o[1]

\* SyscallResult<Option<usize>>: Ok(Some(v)), Ok(None), Err(errno)
Ok(v) == [tag |-> "Ok", val |-> v]
Block == [tag |-> "Block", val |-> 0]
\* the thread panics ("attempt to add with overflow") instead of returning
Panic == [tag |-> "Panic", val |-> 0]
Err(e) == [tag |-> "Err", val |-> e]

\* SchemeBlockMut::handle: the value for packet.a, or None when the verb blocks
Mux(res) == IF res.tag = "Block" THEN None
            ELSE IF res.tag = "Ok" THEN Some(res.val) ELSE Some(0 - res.val)

TimeSpec(s, n) == [tv_sec |-> s, tv_nsec |-> n]

\* tv_nsec is an i32: a + b overflows when the sum leaves [-2^31, 2^31 - 1]
add_overflows(a, b) ==
    \/ (a > 0 /\ b > I32_MAX - a)
    \/ (a < 0 /\ b < ((0 - I32_MAX) - 1) - a)

\* a + b in i32 as a build without overflow checks computes it (two's complement)
wrapping_add(a, b) ==
    IF a > 0 /\ b > I32_MAX - a THEN ((a - I32_MAX) - 1) + ((b - I32_MAX) - 1)
    ELSE IF a < 0 /\ b < ((0 - I32_MAX) - 1) - a
    THEN ((a + I32_MAX) + 1) + ((b + I32_MAX) + 1)
    ELSE a + b

\* the / and % of Rust's integers: the quotient is rounded towards zero and the
\* remainder has the sign of the dividend
div_trunc(n, d) ==
    IF n >= 0 THEN n \div d
    ELSE LET m == 0 - (n + 1)
         IN  0 - ((m \div d) + (IF m % d = d - 1 THEN 1 ELSE 0))
rem_trunc(n, d) == n - d * div_trunc(n, d)

\* (the tv_sec of the runs stay far from the limits of i64)
add_time(a, b) ==
    LET secs == a.tv_sec + b.tv_sec
        nsecs == wrapping_add(a.tv_nsec, b.tv_nsec)
    IN  TimeSpec(secs + div_trunc(nsecs, NSEC_PER_SEC), rem_trunc(nsecs, NSEC_PER_SEC))

\* the guard of the timeout arm of notify_sockets
Expired(until, t) ==
    \/ until.tv_sec < t.tv_sec
    \/ (until.tv_sec = t.tv_sec /\ until.tv_nsec < t.tv_nsec)

----------------------------------------------------------------------------
(* Maps (BTreeMap) as functions with a finite domain.                      *)

Insert(m, k, v) == [x \in DOMAIN m \cup {k} |-> IF x = k THEN v ELSE m[x]]
Remove(m, k) == [x \in DOMAIN m \ {k} |-> m[x]]
Empty == [x \in {} |-> 0]

----------------------------------------------------------------------------
(* Paths and names.  A path is the sequence of its '/'-separated parts; a  *)
(* part is either a word that is no endpoint (word # "") or ADDR:PORT.     *)
(* addr 0 is the unspecified address 0.0.0.0.                              *)

Part(w, a, p) == [word |-> w, addr |-> a, port |-> p]
Endpoint(a, p) == [addr |-> a, port |-> p]
UNSPECIFIED == Endpoint(0, 0)

\* IpEndpoint::is_specified
is_specified(ep) == ep.addr # 0 /\ ep.port # 0

\* parse_endpoint of one part; a word does not parse and yields 0.0.0.0:0
parse_endpoint(part) ==
    IF part.word # "" THEN UNSPECIFIED ELSE Endpoint(part.addr, part.port)

\* parse_endpoint of a whole name: text after the first ':' that holds a '/'
\* is no port number
parse_name(path) ==
    IF Len(path) = 0 THEN UNSPECIFIED
    ELSE IF Len(path) = 1 THEN parse_endpoint(path[1])
    ELSE Endpoint(parse_endpoint(path[1]).addr, 0)

\* parts.next().unwrap_or("") of path.split('/')
NextPart(path, i) == IF i <= Len(path) THEN path[i] ELSE Part("", 0, 0)

IsWord(path, w) == Len(path) = 1 /\ path[1].word = w

----------------------------------------------------------------------------
(* Flag words.                                                             *)

\* x & bit == bit, for a single-bit mask
HasBit(x, bit) == (x \div bit) % 2 = 1

\* arg & !O_ACCMODE
\* (O_ACCMODE is the two bits starting at bit O_ACCMODE / 3)
ClearAccMode(arg) == arg - ((arg \div (O_ACCMODE \div 3)) % 4) * (O_ACCMODE \div 3)

----------------------------------------------------------------------------
(* The port set (scheme data of the UDP adapter): a refcount per port.     *)

PortSetNew == [ports |-> Empty, next_port |-> PORT_FIRST]

PortSucc(p) == IF p = PORT_LAST THEN PORT_FIRST ELSE p + 1

RECURSIVE ScanPort(_, _, _)
ScanPort(ps, p, n) ==
    IF n = 0 THEN None
    ELSE IF p \notin DOMAIN ps.ports THEN Some(p)
    ELSE ScanPort(ps, PortSucc(p), n - 1)

\* get_port: the first free port from next_port on, claimed
get_port(ps) ==
    LET got == ScanPort(ps, ps.next_port, PORT_LAST - PORT_FIRST + 1)
    IN  IF IsSome(got)
        THEN [port |-> got,
              ps |-> [ports |-> Insert(ps.ports, Unwrap(got), 1),
                      next_port |-> PortSucc(Unwrap(got))]]
        ELSE [port |-> None, ps |-> ps]

\* claim_port: false when the port is taken
claim_port(ps, p) ==
    IF p \in DOMAIN ps.ports THEN [ok |-> FALSE, ps |-> ps]
    ELSE [ok |-> TRUE, ps |-> [ps EXCEPT !.ports = Insert(ps.ports, p, 1)]]

acquire_port(ps, p) ==
    [ps EXCEPT !.ports =
        Insert(ps.ports, p, IF p \in DOMAIN ps.ports THEN ps.ports[p] + 1 ELSE 1)]

release_port(ps, p) ==
    IF p \notin DOMAIN ps.ports THEN ps
    ELSE IF ps.ports[p] = 1 THEN [ps EXCEPT !.ports = Remove(ps.ports, p)]
    ELSE [ps EXCEPT !.ports = Insert(ps.ports, p, ps.ports[p] - 1)]

----------------------------------------------------------------------------
(* The stack's sockets.                                                    *)

\* rx counts the datagrams received; tx lists the destinations of those to send
UdpSocket(p) == [port |-> p, rx |-> 0, tx |-> <<>>, hop_limit |-> None]

\* SocketSet::add: the first free slot
FreeSlot(socks) ==
    CHOOSE h \in 0..Cardinality(DOMAIN socks) :
        h \notin DOMAIN socks /\ \A k \in 0..(h - 1) : k \in DOMAIN socks

can_send(sock) == Len(sock.tx) < BufCap
can_recv(sock) == sock.rx > 0
may_recv(sock) == TRUE

hop_limit(sock) == IF IsSome(sock.hop_limit) THEN Unwrap(sock.hop_limit)
                   ELSE DEFAULT_HOP_LIMIT

----------------------------------------------------------------------------
(* Handle descriptors.                                                     *)

NullFile(flags, uid, gid) == [flags |-> flags, uid |-> uid, gid |-> gid]

SocketFile(flags, events, handle, rt, wt, data) ==
    [kind |-> "Socket", flags |-> flags, data |-> data, events |-> events,
     socket_handle |-> handle, read_notified |-> FALSE, write_notified |-> FALSE,
     read_timeout |-> rt, write_timeout |-> wt]

clone_with_data(file, data) ==
    SocketFile(file.flags, file.events, file.socket_handle,
               file.read_timeout, file.write_timeout, data)

new_with_data(handle, data) == SocketFile(0, 0, handle, None, None, data)

SettingFile(fd, handle, setting) ==
    [kind |-> "Setting", fd |-> fd, socket_handle |-> handle, setting |-> setting]

IsSocket(f) == f.kind = "Socket"

\* the handles that refer to socket key h
Refs(fs, h) == {f \in DOMAIN fs : fs[f].socket_handle = h}
SocketRefs(fs, h) == {f \in Refs(fs, h) : IsSocket(fs[f])}

----------------------------------------------------------------------------
(* The UDP adapter (impl SchemeSocket for UdpSocket).                      *)

NewSocketErr(e, socks, ps) ==
    [res |-> Err(e), sockets |-> socks, port_set |-> ps, handle |-> 0,
     data |-> UNSPECIFIED]

BindSocket(socks, ps, port, remote) ==
    LET h == FreeSlot(socks)
    IN  [res |-> Ok(0), sockets |-> Insert(socks, h, UdpSocket(port)),
         port_set |-> ps, handle |-> h, data |-> remote]

\* mutant of new_socket: port 1024 itself is not privileged
new_socket_below(socks, ps, path, uid) ==
    LET remote_endpoint == parse_endpoint(NextPart(path, 1))
        local_endpoint == parse_endpoint(NextPart(path, 2))
    IN  IF local_endpoint.port > 0 /\ local_endpoint.port < PRIVILEGED_MAX /\ uid # 0
        THEN NewSocketErr(EACCES, socks, ps)
        ELSE IF local_endpoint.port = 0
        THEN LET got == get_port(ps)
             IN  IF IsSome(got.port)
                 THEN BindSocket(socks, got.ps, Unwrap(got.port), remote_endpoint)
                 ELSE NewSocketErr(EINVAL, socks, ps)
        ELSE LET claimed == claim_port(ps, local_endpoint.port)
             IN  IF claimed.ok
                 THEN BindSocket(socks, claimed.ps, local_endpoint.port, remote_endpoint)
                 ELSE NewSocketErr(EADDRINUSE, socks, ps)

new_socket(socks, ps, path, uid) ==
    LET remote_endpoint == parse_endpoint(NextPart(path, 1))
        local_endpoint == parse_endpoint(NextPart(path, 2))
    IN  IF local_endpoint.port > 0 /\ local_endpoint.port <= PRIVILEGED_MAX /\ uid # 0
        THEN NewSocketErr(EACCES, socks, ps)
        ELSE IF local_endpoint.port = 0
        THEN LET got == get_port(ps)
             IN  IF IsSome(got.port)
                 THEN BindSocket(socks, got.ps, Unwrap(got.port), remote_endpoint)
                 ELSE NewSocketErr(EINVAL, socks, ps)
        ELSE LET claimed == claim_port(ps, local_endpoint.port)
             IN  IF claimed.ok
                 THEN BindSocket(socks, claimed.ps, local_endpoint.port, remote_endpoint)
                 ELSE NewSocketErr(EADDRINUSE, socks, ps)

close_file(sock, file, ps) ==
    IF IsSocket(file) THEN release_port(ps, sock.port) ELSE ps

\* mutant of write_buf: the remote endpoint is looked at only when sending
write_buf_send_first(sock, file, buf) ==
    IF can_send(sock)
    THEN IF ~is_specified(file.data) THEN [res |-> Err(EADDRNOTAVAIL), sock |-> sock]
         ELSE [res |-> Ok(buf.len), sock |-> [sock EXCEPT !.tx = Append(@, file.data)]]
    ELSE IF HasBit(file.flags, O_NONBLOCK) THEN [res |-> Err(EAGAIN), sock |-> sock]
    ELSE [res |-> Block, sock |-> sock]

\* mutant of write_buf: a write that finds the tx buffer full discards what is
\* queued before it blocks
write_buf_block_flushes(sock, file, buf) ==
    IF ~is_specified(file.data) THEN [res |-> Err(EADDRNOTAVAIL), sock |-> sock]
    ELSE IF can_send(sock)
    THEN [res |-> Ok(buf.len), sock |-> [sock EXCEPT !.tx = Append(@, file.data)]]
    ELSE IF HasBit(file.flags, O_NONBLOCK) THEN [res |-> Err(EAGAIN), sock |-> sock]
    ELSE [res |-> Block, sock |-> [sock EXCEPT !.tx = <<>>]]

\* [res, sock]: the result and the socket after the call
write_buf(sock, file, buf) ==
    IF ~is_specified(file.data) THEN [res |-> Err(EADDRNOTAVAIL), sock |-> sock]
    ELSE IF can_send(sock)
    THEN [res |-> Ok(buf.len), sock |-> [sock EXCEPT !.tx = Append(@, file.data)]]
    ELSE IF HasBit(file.flags, O_NONBLOCK) THEN [res |-> Err(EAGAIN), sock |-> sock]
    ELSE [res |-> Block, sock |-> sock]

Min(a, b) == IF a < b THEN a ELSE b

\* mutant of read_buf: the flags are compared with O_NONBLOCK instead of masked
read_buf_flags_equal(sock, file, buf) ==
    IF can_recv(sock)
    THEN [res |-> Ok(Min(buf.len, DatagramLen)), sock |-> [sock EXCEPT !.rx = @ - 1]]
    ELSE IF file.flags = O_NONBLOCK THEN [res |-> Err(EAGAIN), sock |-> sock]
    ELSE [res |-> Block, sock |-> sock]

read_buf(sock, file, buf) ==
    IF can_recv(sock)
    THEN [res |-> Ok(Min(buf.len, DatagramLen)), sock |-> [sock EXCEPT !.rx = @ - 1]]
    ELSE IF HasBit(file.flags, O_NONBLOCK) THEN [res |-> Err(EAGAIN), sock |-> sock]
    ELSE [res |-> Block, sock |-> sock]

\* mutant of udp_dup: the clone always takes the endpoint parsed from the name
udp_dup_parsed(socks, file, path, ps) ==
    LET remote_endpoint == parse_name(path)
        new == IF IsSocket(file) THEN clone_with_data(file, remote_endpoint)
               ELSE new_with_data(file.socket_handle, remote_endpoint)
    IN  [file |-> new, ps |-> acquire_port(ps, socks[file.socket_handle].port)]

\* [file, ps]: the new handle and the port set after the call
udp_dup(socks, file, path, ps) ==
    LET remote_endpoint == parse_name(path)
        new == IF IsSocket(file)
               THEN clone_with_data(file, IF is_specified(remote_endpoint)
                                          THEN remote_endpoint ELSE file.data)
               ELSE new_with_data(file.socket_handle, remote_endpoint)
    IN  [file |-> new, ps |-> acquire_port(ps, socks[file.socket_handle].port)]

----------------------------------------------------------------------------
(* The scheme engine (impl SchemeBlockMut for SocketScheme).  A verb takes *)
(* the scheme state st and yields the state after it, its result and what  *)
(* it stored in the caller's buffer.                                       *)

\* mutant of bump_fd: the increment is forgotten
bump_fd_forgotten(fd) == fd

\* self.next_fd += 1
bump_fd(fd) == fd + 1

Buf(len, s, n) == [len |-> len, tv_sec |-> s, tv_nsec |-> n]
NoBuf == Buf(0, 0, 0)

R(st, res, buf) == [st |-> st, res |-> res, buf |-> buf]

open(st, path, flags, uid, gid) ==
    IF Len(path) = 0
    THEN R([st EXCEPT !.nulls = Insert(@, st.next_fd, NullFile(flags, uid, gid)),
                      !.next_fd = bump_fd(@)],
           Ok(st.next_fd), NoBuf)
    ELSE LET made == new_socket(st.sockets, st.port_set, path, uid)
             file == SocketFile(flags, 0, made.handle, None, None, made.data)
         IN  IF made.res.tag = "Err" THEN R(st, made.res, NoBuf)
             ELSE R([st EXCEPT !.sockets = made.sockets,
                               !.port_set = made.port_set,
                               !.files = Insert(@, st.next_fd, file),
                               !.next_fd = bump_fd(@)],
                    Ok(st.next_fd), NoBuf)

\* wait_queue.retain(|WaitHandle { packet: Packet { a, .. }, .. }| a != fd)
retain(wq, fd) == SelectSeq(wq, LAMBDA w : w.packet.a # fd)

\* mutant of remove_unreferenced: only socket handles count as references
remove_unreferenced_sockets_only(socks, fs, fd, h) ==
    IF \A f \in DOMAIN fs : ~(f # fd /\ IsSocket(fs[f]) /\ fs[f].socket_handle = h)
    THEN Remove(socks, h) ELSE socks

\* the socket of key h is dropped when no handle left in fs refers to it
remove_unreferenced(socks, fs, fd, h) ==
    IF \A f \in DOMAIN fs : ~(f # fd /\ fs[f].socket_handle = h)
    THEN Remove(socks, h) ELSE socks

close(st, fd) ==
    IF fd \in DOMAIN st.nulls
    THEN R([st EXCEPT !.nulls = Remove(@, fd)], Ok(0), NoBuf)
    ELSE IF fd \notin DOMAIN st.files THEN R(st, Err(EBADF), NoBuf)
    ELSE LET file == st.files[fd]
             h == file.socket_handle
             left == Remove(st.files, fd)
         IN  R([st EXCEPT !.files = left,
                          !.port_set = close_file(st.sockets[h], file, @),
                          !.wait_queue = retain(@, fd),
                          !.sockets = remove_unreferenced(@, left, fd, h)],
               Ok(0), NoBuf)

\* mutant of get_setting: reading a timeout that is not set blocks
get_setting_blocks(st, fd, setting, buf) ==
    IF fd \notin DOMAIN st.files THEN R(st, Err(EBADF), NoBuf)
    ELSE IF ~IsSocket(st.files[fd]) THEN R(st, Err(EBADF), NoBuf)
    ELSE LET file == st.files[fd]
         IN  IF setting = "Ttl"
             THEN IF buf.len >= 1
                  THEN R(st, Ok(1), Buf(1, hop_limit(st.sockets[file.socket_handle]), 0))
                  ELSE R(st, Err(EIO), NoBuf)
             ELSE LET t == IF setting = "ReadTimeout" THEN file.read_timeout
                           ELSE file.write_timeout
                  IN  IF ~IsSome(t) THEN R(st, Block, NoBuf)
                      ELSE IF buf.len < TIMESPEC_SIZE THEN R(st, Ok(0), NoBuf)
                      ELSE R(st, Ok(TIMESPEC_SIZE),
                             Buf(TIMESPEC_SIZE, Unwrap(t).tv_sec, Unwrap(t).tv_nsec))

get_setting(st, fd, setting, buf) ==
    IF fd \notin DOMAIN st.files THEN R(st, Err(EBADF), NoBuf)
    ELSE IF ~IsSocket(st.files[fd]) THEN R(st, Err(EBADF), NoBuf)
    ELSE LET file == st.files[fd]
         IN  IF setting = "Ttl"
             THEN IF buf.len >= 1
                  THEN R(st, Ok(1), Buf(1, hop_limit(st.sockets[file.socket_handle]), 0))
                  ELSE R(st, Err(EIO), NoBuf)
             ELSE LET t == IF setting = "ReadTimeout" THEN file.read_timeout
                           ELSE file.write_timeout
                  IN  IF ~IsSome(t) THEN R(st, Ok(0), NoBuf)
                      ELSE IF buf.len < TIMESPEC_SIZE THEN R(st, Ok(0), NoBuf)
                      ELSE R(st, Ok(TIMESPEC_SIZE),
                             Buf(TIMESPEC_SIZE, Unwrap(t).tv_sec, Unwrap(t).tv_nsec))

\* mutant of update_setting: a timeout written is stored for both directions
update_setting_both(st, fd, setting, buf) ==
    IF fd \notin DOMAIN st.files THEN R(st, Err(EBADF), NoBuf)
    ELSE IF ~IsSocket(st.files[fd]) THEN R(st, Err(EBADF), NoBuf)
    ELSE LET file == st.files[fd]
             timeout == IF buf.len < TIMESPEC_SIZE THEN None
                        ELSE Some(TimeSpec(buf.tv_sec, buf.tv_nsec))
             count == IF buf.len < TIMESPEC_SIZE THEN 0 ELSE TIMESPEC_SIZE
         IN  IF setting = "ReadTimeout" \/ setting = "WriteTimeout"
             THEN R([st EXCEPT !.files[fd].read_timeout = timeout,
                               !.files[fd].write_timeout = timeout],
                    Ok(count), NoBuf)
             ELSE IF buf.len >= 1
             THEN R([st EXCEPT !.sockets[file.socket_handle].hop_limit =
                                    Some(buf.tv_sec % 256)],
                    Ok(1), NoBuf)
             ELSE R(st, Err(EIO), NoBuf)

\* mutant of update_setting: a buffer too short for a TimeSpec leaves the
\* timeout as it was
update_setting_short_kept(st, fd, setting, buf) ==
    IF fd \notin DOMAIN st.files THEN R(st, Err(EBADF), NoBuf)
    ELSE IF ~IsSocket(st.files[fd]) THEN R(st, Err(EBADF), NoBuf)
    ELSE LET file == st.files[fd]
             timeout == Some(TimeSpec(buf.tv_sec, buf.tv_nsec))
         IN  IF setting = "ReadTimeout" \/ setting = "WriteTimeout"
             THEN IF buf.len < TIMESPEC_SIZE THEN R(st, Ok(0), NoBuf)
                  ELSE IF setting = "ReadTimeout"
                  THEN R([st EXCEPT !.files[fd].read_timeout = timeout],
                         Ok(TIMESPEC_SIZE), NoBuf)
                  ELSE R([st EXCEPT !.files[fd].write_timeout = timeout],
                         Ok(TIMESPEC_SIZE), NoBuf)
             ELSE IF buf.len >= 1
             THEN R([st EXCEPT !.sockets[file.socket_handle].hop_limit =
                                    Some(buf.tv_sec % 256)],
                    Ok(1), NoBuf)
             ELSE R(st, Err(EIO), NoBuf)

update_setting(st, fd, setting, buf) ==
    IF fd \notin DOMAIN st.files THEN R(st, Err(EBADF), NoBuf)
    ELSE IF ~IsSocket(st.files[fd]) THEN R(st, Err(EBADF), NoBuf)
    ELSE LET file == st.files[fd]
             timeout == IF buf.len < TIMESPEC_SIZE THEN None
                        ELSE Some(TimeSpec(buf.tv_sec, buf.tv_nsec))
             count == IF buf.len < TIMESPEC_SIZE THEN 0 ELSE TIMESPEC_SIZE
         IN  IF setting = "ReadTimeout"
             THEN R([st EXCEPT !.files[fd].read_timeout = timeout], Ok(count), NoBuf)
             ELSE IF setting = "WriteTimeout"
             THEN R([st EXCEPT !.files[fd].write_timeout = timeout], Ok(count), NoBuf)
             ELSE IF buf.len >= 1
             THEN R([st EXCEPT !.sockets[file.socket_handle].hop_limit =
                                    Some(buf.tv_sec % 256)],
                    Ok(1), NoBuf)
             ELSE R(st, Err(EIO), NoBuf)

write(st, fd, buf) ==
    IF fd \notin DOMAIN st.files THEN R(st, Err(EBADF), NoBuf)
    ELSE LET file == st.files[fd]
         IN  IF IsSocket(file)
             THEN LET w == write_buf(st.sockets[file.socket_handle], file, buf)
                  IN  R([st EXCEPT !.sockets[file.socket_handle] = w.sock], w.res, NoBuf)
             ELSE update_setting(st, file.fd, file.setting, buf)

read(st, fd, buf) ==
    IF fd \notin DOMAIN st.files THEN R(st, Err(EBADF), NoBuf)
    ELSE LET file == st.files[fd]
         IN  IF IsSocket(file)
             THEN LET r == read_buf(st.sockets[file.socket_handle], file, buf)
                  IN  R([st EXCEPT !.sockets[file.socket_handle] = r.sock], r.res, NoBuf)
             ELSE get_setting(st, file.fd, file.setting, buf)

dup(st, fd, path) ==
    IF fd \in DOMAIN st.nulls
    THEN open(st, path, st.nulls[fd].flags, st.nulls[fd].uid, st.nulls[fd].gid)
    ELSE IF fd \notin DOMAIN st.files THEN R(st, Err(EBADF), NoBuf)
    ELSE LET file == st.files[fd]
             h == file.socket_handle
             other == udp_dup(st.sockets, file, path, st.port_set)
             new == IF IsWord(path, "hop_limit") THEN SettingFile(fd, h, "Ttl")
                    ELSE IF IsWord(path, "read_timeout")
                    THEN SettingFile(fd, h, "ReadTimeout")
                    ELSE IF IsWord(path, "write_timeout")
                    THEN SettingFile(fd, h, "WriteTimeout")
                    ELSE other.file
             ps == IF IsWord(path, "hop_limit") \/ IsWord(path, "read_timeout")
                      \/ IsWord(path, "write_timeout")
                   THEN st.port_set ELSE other.ps
         IN  R([st EXCEPT !.port_set = ps,
                          !.files = Insert(@, st.next_fd, new),
                          !.next_fd = bump_fd(@)],
               Ok(st.next_fd), NoBuf)

\* mutant of events: a notified flag is set on a rising edge and never cleared
events_sticky(file, socks) ==
    IF ~IsSocket(file) THEN [file |-> file, revents |-> 0]
    ELSE LET sock == socks[file.socket_handle]
             rd == HasBit(file.events, EVENT_READ) /\ (can_recv(sock) \/ ~may_recv(sock))
             wr == HasBit(file.events, EVENT_WRITE) /\ can_send(sock)
         IN  [file |-> [file EXCEPT !.read_notified = @ \/ rd, !.write_notified = @ \/ wr],
              revents |-> (IF rd /\ ~file.read_notified THEN EVENT_READ ELSE 0)
                          + (IF wr /\ ~file.write_notified THEN EVENT_WRITE ELSE 0)]

\* mutant of events: a setting handle is always reported readable
events_setting(file, socks) ==
    IF ~IsSocket(file) THEN [file |-> file, revents |-> EVENT_READ]
    ELSE LET sock == socks[file.socket_handle]
             rd == HasBit(file.events, EVENT_READ) /\ (can_recv(sock) \/ ~may_recv(sock))
             wr == HasBit(file.events, EVENT_WRITE) /\ can_send(sock)
         IN  [file |-> [file EXCEPT !.read_notified = rd, !.write_notified = wr],
              revents |-> (IF rd /\ ~file.read_notified THEN EVENT_READ ELSE 0)
                          + (IF wr /\ ~file.write_notified THEN EVENT_WRITE ELSE 0)]

\* SchemeFile::events: the handle after the call and the events to post
events(file, socks) ==
    IF ~IsSocket(file) THEN [file |-> file, revents |-> 0]
    ELSE LET sock == socks[file.socket_handle]
             rd == HasBit(file.events, EVENT_READ) /\ (can_recv(sock) \/ ~may_recv(sock))
             wr == HasBit(file.events, EVENT_WRITE) /\ can_send(sock)
         IN  [file |-> [file EXCEPT !.read_notified = rd, !.write_notified = wr],
              revents |-> (IF rd /\ ~file.read_notified THEN EVENT_READ ELSE 0)
                          + (IF wr /\ ~file.write_notified THEN EVENT_WRITE ELSE 0)]

\* mutant of fevent: the notified flags are not cleared
fevent_flags_kept(st, fd, mask) ==
    IF fd \notin DOMAIN st.files THEN R(st, Err(EBADF), NoBuf)
    ELSE IF ~IsSocket(st.files[fd]) THEN R(st, Err(EBADF), NoBuf)
    ELSE LET file == [st.files[fd] EXCEPT !.events = mask]
             e == events(file, st.sockets)
         IN  R([st EXCEPT !.files[fd] = e.file], Ok(e.revents), NoBuf)

fevent(st, fd, mask) ==
    IF fd \notin DOMAIN st.files THEN R(st, Err(EBADF), NoBuf)
    ELSE IF ~IsSocket(st.files[fd]) THEN R(st, Err(EBADF), NoBuf)
    ELSE LET file == [st.files[fd] EXCEPT !.events = mask,
                                          !.read_notified = FALSE,
                                          !.write_notified = FALSE]
             e == events(file, st.sockets)
         IN  R([st EXCEPT !.files[fd] = e.file], Ok(e.revents), NoBuf)

fsync(st, fd) ==
    IF fd \notin DOMAIN st.files THEN R(st, Err(EBADF), NoBuf) ELSE R(st, Ok(0), NoBuf)

\* mutant of fcntl: F_SETFL stores the argument with its access-mode bits
fcntl_unmasked(st, fd, cmd, arg) ==
    IF fd \in DOMAIN st.nulls
    THEN IF cmd = F_GETFL THEN R(st, Ok(st.nulls[fd].flags), NoBuf)
         ELSE IF cmd = F_SETFL
         THEN R([st EXCEPT !.nulls[fd].flags = arg], Ok(0), NoBuf)
         ELSE R(st, Err(EINVAL), NoBuf)
    ELSE IF fd \notin DOMAIN st.files THEN R(st, Err(EBADF), NoBuf)
    ELSE IF ~IsSocket(st.files[fd]) THEN R(st, Err(EBADF), NoBuf)
    ELSE IF cmd = F_GETFL THEN R(st, Ok(st.files[fd].flags), NoBuf)
    ELSE IF cmd = F_SETFL
    THEN R([st EXCEPT !.files[fd].flags = arg], Ok(0), NoBuf)
    ELSE R(st, Err(EINVAL), NoBuf)

fcntl(st, fd, cmd, arg) ==
    IF fd \in DOMAIN st.nulls
    THEN IF cmd = F_GETFL THEN R(st, Ok(st.nulls[fd].flags), NoBuf)
         ELSE IF cmd = F_SETFL
         THEN R([st EXCEPT !.nulls[fd].flags = ClearAccMode(arg)], Ok(0), NoBuf)
         ELSE R(st, Err(EINVAL), NoBuf)
    ELSE IF fd \notin DOMAIN st.files THEN R(st, Err(EBADF), NoBuf)
    ELSE IF ~IsSocket(st.files[fd]) THEN R(st, Err(EBADF), NoBuf)
    ELSE IF cmd = F_GETFL THEN R(st, Ok(st.files[fd].flags), NoBuf)
    ELSE IF cmd = F_SETFL
    THEN R([st EXCEPT !.files[fd].flags = ClearAccMode(arg)], Ok(0), NoBuf)
    ELSE R(st, Err(EINVAL), NoBuf)

----------------------------------------------------------------------------
(* Request packets, the block planner and the wait queue.                  *)

Packet(id, a, b, buf) == [id |-> id, a |-> a, b |-> b, buf |-> buf]
WaitHandle(until, packet) == [until |-> until, packet |-> packet]

\* SchemeBlockMut::handle for the verbs a parked packet can carry
handle(st, packet) ==
    IF packet.a = SYS_READ THEN read(st, packet.b, packet.buf)
    ELSE IF packet.a = SYS_WRITE THEN write(st, packet.b, packet.buf)
    ELSE R(st, Err(ENOSYS), NoBuf)

\* handle_block: Ok(deadline) or Err(EBADF); t is the monotonic time, and checks
\* says whether the build checks integer overflow (then add_time panics on it)
handle_block(st, packet, t, checks) ==
    IF packet.b \notin DOMAIN st.files THEN Err(EBADF)
    ELSE IF ~IsSocket(st.files[packet.b]) THEN Err(EBADF)
    ELSE LET file == st.files[packet.b]
             timeout == IF packet.a = SYS_WRITE THEN file.write_timeout
                        ELSE IF packet.a = SYS_READ THEN file.read_timeout
                        ELSE None
         IN  IF ~IsSome(timeout) THEN Ok(None)
             ELSE IF checks /\ add_overflows(Unwrap(timeout).tv_nsec, t.tv_nsec)
             THEN Panic
             ELSE Ok(Some(add_time(Unwrap(timeout), t)))

\* a packet written back to the scheme file: the request with a overwritten
Reply(packet, val, until, parked) ==
    [id |-> packet.id, verb |-> packet.a, b |-> packet.b, val |-> val,
     until |-> until, parked |-> parked]

RemoveAt(q, i) == SubSeq(q, 1, i - 1) \o SubSeq(q, i + 1, Len(q))

\* mutant of walk: the index advances after a removal too, so the entry that
\* moved into the freed slot is skipped
RECURSIVE walk_skip(_, _, _, _, _)
walk_skip(st, i, t, replies, seen) ==
    IF i > Len(st.wait_queue)
    THEN [st |-> st, replies |-> replies, visited |-> seen]
    ELSE LET w == st.wait_queue[i]
             r == handle(st, w.packet)
             a == Mux(r.res)
         IN  IF IsSome(a)
             THEN walk_skip([r.st EXCEPT !.wait_queue = RemoveAt(@, i)], i + 1, t,
                            Append(replies, Reply(w.packet, Unwrap(a), w.until, TRUE)),
                            Append(seen, w.packet.id))
             ELSE IF IsSome(w.until) /\ Expired(Unwrap(w.until), t)
             THEN walk_skip([r.st EXCEPT !.wait_queue = RemoveAt(@, i)], i + 1, t,
                            Append(replies, Reply(w.packet, 0 - ETIMEDOUT, w.until, TRUE)),
                            Append(seen, w.packet.id))
             ELSE walk_skip(r.st, i + 1, t, replies, Append(seen, w.packet.id))

\* mutant of walk: an entry is removed by moving the last entry into its slot
RECURSIVE walk_swap_remove(_, _, _, _, _)
walk_swap_remove(st, i, t, replies, seen) ==
    IF i > Len(st.wait_queue)
    THEN [st |-> st, replies |-> replies, visited |-> seen]
    ELSE LET w == st.wait_queue[i]
             r == handle(st, w.packet)
             a == Mux(r.res)
             q == r.st.wait_queue
             swapped == IF i = Len(q) THEN SubSeq(q, 1, i - 1)
                        ELSE [SubSeq(q, 1, Len(q) - 1) EXCEPT ![i] = q[Len(q)]]
         IN  IF IsSome(a)
             THEN walk_swap_remove([r.st EXCEPT !.wait_queue = swapped], i, t,
                       Append(replies, Reply(w.packet, Unwrap(a), w.until, TRUE)),
                       Append(seen, w.packet.id))
             ELSE IF IsSome(w.until) /\ Expired(Unwrap(w.until), t)
             THEN walk_swap_remove([r.st EXCEPT !.wait_queue = swapped], i, t,
                       Append(replies, Reply(w.packet, 0 - ETIMEDOUT, w.until, TRUE)),
                       Append(seen, w.packet.id))
             ELSE walk_swap_remove(r.st, i + 1, t, replies, Append(seen, w.packet.id))

\* mutant of walk: an entry whose deadline has passed is replied ETIMEDOUT and
\* left in the queue
RECURSIVE walk_reply_kept(_, _, _, _, _)
walk_reply_kept(st, i, t, replies, seen) ==
    IF i > Len(st.wait_queue)
    THEN [st |-> st, replies |-> replies, visited |-> seen]
    ELSE LET w == st.wait_queue[i]
             r == handle(st, w.packet)
             a == Mux(r.res)
         IN  IF IsSome(a)
             THEN walk_reply_kept([r.st EXCEPT !.wait_queue = RemoveAt(@, i)], i, t,
                       Append(replies, Reply(w.packet, Unwrap(a), w.until, TRUE)),
                       Append(seen, w.packet.id))
             ELSE IF IsSome(w.until) /\ Expired(Unwrap(w.until), t)
             THEN walk_reply_kept(r.st, i + 1, t,
                       Append(replies, Reply(w.packet, 0 - ETIMEDOUT, w.until, TRUE)),
                       Append(seen, w.packet.id))
             ELSE walk_reply_kept(r.st, i + 1, t, replies, Append(seen, w.packet.id))

\* the wait-queue loop of notify_sockets from index i on, at time t; seen lists
\* the packets handed to handle so far
RECURSIVE walk(_, _, _, _, _)
walk(st, i, t, replies, seen) ==
    IF i > Len(st.wait_queue)
    THEN [st |-> st, replies |-> replies, visited |-> seen]
    ELSE LET w == st.wait_queue[i]
             r == handle(st, w.packet)
             a == Mux(r.res)
         IN  IF IsSome(a)
             THEN walk([r.st EXCEPT !.wait_queue = RemoveAt(@, i)], i, t,
                       Append(replies, Reply(w.packet, Unwrap(a), w.until, TRUE)),
                       Append(seen, w.packet.id))
             ELSE IF IsSome(w.until) /\ Expired(Unwrap(w.until), t)
             THEN walk([r.st EXCEPT !.wait_queue = RemoveAt(@, i)], i, t,
                       Append(replies, Reply(w.packet, 0 - ETIMEDOUT, w.until, TRUE)),
                       Append(seen, w.packet.id))
             ELSE walk(r.st, i + 1, t, replies, Append(seen, w.packet.id))

----------------------------------------------------------------------------
(* The state machine.                                                      *)

Scheme == [next_fd |-> next_fd, nulls |-> nulls, files |-> files,
           sockets |-> sockets, port_set |-> port_set, wait_queue |-> wait_queue]

\* the arguments of a request: the path of open or the name of dup, the caller's
\* uid, the buffer of read and write, the command of fcntl, and val: the flags
\* of open, the argument of fcntl or the mask of fevent
Arg(path, uid, buf, cmd, val) ==
    [path |-> path, uid |-> uid, buf |-> buf, cmd |-> cmd, val |-> val]
NoArg == Arg(<<>>, 0, NoBuf, 0, 0)

\* out: the verb handled, the packet's id and fd, the value replied (None when
\* parked), the replies and events written, for a tick the sockets at which a
\* datagram arrived while they held none and the handles of which the notifier
\* cleared a notified flag, the arguments of the request and what the verb
\* stored in the caller's buffer, and for a walk the packets it replayed
Out(op, id, fd, res, replies, evs, arrived, fell, arg, data, visited) ==
    [op |-> op, id |-> id, fd |-> fd, res |-> res, replies |-> replies,
     events |-> evs, arrived |-> arrived, fell |-> fell, arg |-> arg,
     data |-> data, visited |-> visited]

\* SocketScheme::new, the clock at zero
InitScheme ==
    /\ next_fd = 1
    /\ nulls = Empty
    /\ files = Empty
    /\ sockets = Empty
    /\ port_set = PortSetNew
    /\ wait_queue = <<>>
    /\ now = TimeSpec(0, 0)
    /\ cur_time = TimeSpec(0, 0)
    /\ pc = "idle"
    /\ next_id = 1
    /\ allocated = <<>>
    /\ out = Out("new", 0, 0, None, <<>>, {}, {}, {}, NoArg, NoBuf, <<>>)

\* every handle ID handed out so far, open or closed
Fds == {allocated[i] : i \in 1..Len(allocated)}

CanRequest == pc = "idle" /\ next_id <= cfg.packets
CanAllocate == Len(allocated) < cfg.alloc

\* one iteration of the loop of on_scheme_event: the packet has been read and
\* handled with outcome r; it is replied, or parked by the block planner (whose
\* panic ends the daemon)
on_scheme_event(op, packet, arg, r) ==
    LET a == Mux(r.res)
        planned == handle_block(r.st, packet, now, cfg.overflow_checks)
        panics == ~IsSome(a) /\ planned.tag = "Panic"
        written == IF IsSome(a) THEN <<Reply(packet, Unwrap(a), None, FALSE)>>
                   ELSE IF planned.tag = "Err"
                   THEN <<Reply(packet, 0 - planned.val, None, FALSE)>>
                   ELSE <<>>
    IN  /\ next_fd' = r.st.next_fd
        /\ nulls' = r.st.nulls
        /\ files' = r.st.files
        /\ sockets' = r.st.sockets
        /\ port_set' = r.st.port_set
        /\ wait_queue' = IF ~IsSome(a) /\ planned.tag = "Ok"
                         THEN Append(r.st.wait_queue, WaitHandle(planned.val, packet))
                         ELSE r.st.wait_queue
        /\ next_id' = next_id + 1
        /\ allocated' = allocated \o (IF r.res.tag = "Ok" /\ op \in {"open", "dup"}
                                      THEN <<r.res.val>> ELSE <<>>)
        /\ out' = Out(op, packet.id, packet.b, a, written, {}, {}, {}, arg, r.buf, <<>>)
        /\ pc' = IF panics THEN "panicked" ELSE pc
        /\ UNCHANGED <<now, cur_time, cfg>>

Open ==
    /\ CanRequest /\ CanAllocate
    /\ \E path \in cfg.paths, flags \in cfg.flags, uid \in cfg.uids :
          on_scheme_event("open", Packet(next_id, SYS_OPEN, 0, NoBuf),
                          Arg(path, uid, NoBuf, 0, flags),
                          open(Scheme, path, flags, uid, uid))

Dup ==
    /\ CanRequest /\ CanAllocate
    /\ \E fd \in Fds, name \in cfg.names :
          on_scheme_event("dup", Packet(next_id, SYS_DUP, fd, NoBuf),
                          Arg(name, 0, NoBuf, 0, 0),
                          dup(Scheme, fd, name))

Close ==
    /\ CanRequest
    /\ \E fd \in Fds :
          on_scheme_event("close", Packet(next_id, SYS_CLOSE, fd, NoBuf), NoArg,
                          close(Scheme, fd))

Read ==
    /\ CanRequest
    /\ \E fd \in Fds, buf \in cfg.bufs :
          on_scheme_event("read", Packet(next_id, SYS_READ, fd, buf),
                          Arg(<<>>, 0, buf, 0, 0),
                          read(Scheme, fd, buf))

Write ==
    /\ CanRequest
    /\ \E fd \in Fds, buf \in cfg.bufs :
          on_scheme_event("write", Packet(next_id, SYS_WRITE, fd, buf),
                          Arg(<<>>, 0, buf, 0, 0),
                          write(Scheme, fd, buf))

Fevent ==
    /\ CanRequest
    /\ \E fd \in Fds, mask \in cfg.masks :
          on_scheme_event("fevent", Packet(next_id, SYS_FEVENT, fd, NoBuf),
                          Arg(<<>>, 0, NoBuf, 0, mask),
                          fevent(Scheme, fd, mask))

Fcntl ==
    /\ CanRequest
    /\ \E fd \in Fds, cmd \in cfg.cmds, arg \in cfg.flags :
          on_scheme_event("fcntl", Packet(next_id, SYS_FCNTL, fd, NoBuf),
                          Arg(<<>>, 0, NoBuf, cmd, arg),
                          fcntl(Scheme, fd, cmd, arg))

Fsync ==
    /\ CanRequest
    /\ \E fd \in Fds :
          on_scheme_event("fsync", Packet(next_id, SYS_FSYNC, fd, NoBuf), NoArg,
                          fsync(Scheme, fd))

\* the stack's poll: datagrams arrive at the sockets of arrive that have room,
\* and the tx buffers are sent out when flush
poll(socks, arrive, flush) ==
    [h \in DOMAIN socks |->
        [socks[h] EXCEPT !.rx = IF h \in arrive /\ @ < BufCap THEN @ + 1 ELSE @,
                         !.tx = IF flush THEN <<>> ELSE @]]

\* the notifier loop of notify_sockets over the polled sockets
notify(fs, socks) ==
    [files |-> [f \in DOMAIN fs |-> events(fs[f], socks).file],
     posted |-> {[fd |-> f, flags |-> events(fs[f], socks).revents] :
                    f \in {g \in DOMAIN fs : events(fs[g], socks).revents > 0}}]

\* what a poll may find on the network in this run
Arrivals == IF cfg.traffic THEN SUBSET {h \in DOMAIN sockets : sockets[h].rx < BufCap}
            ELSE {{}}
Flushes == IF cfg.traffic THEN BOOLEAN ELSE {TRUE}

\* a tick up to the end of the notifier loop: poll, read the clock, notify
Tick ==
    /\ pc = "idle"
    /\ \E arrive \in Arrivals, flush \in Flushes :
          LET polled == poll(sockets, arrive, flush)
              n == notify(files, polled)
          IN  /\ sockets' = polled
              /\ files' = n.files
              /\ out' = Out("notify", 0, 0, None, <<>>, n.posted,
                            {h \in arrive : sockets[h].rx = 0},
                            {f \in DOMAIN files :
                                /\ IsSocket(files[f])
                                /\ \/ files[f].read_notified /\ ~n.files[f].read_notified
                                   \/ files[f].write_notified /\ ~n.files[f].write_notified},
                            NoArg, NoBuf, <<>>)
    /\ cur_time' = now
    /\ pc' = "walk"
    /\ UNCHANGED <<next_fd, nulls, port_set, wait_queue, now, next_id, allocated, cfg>>

\* the rest of the tick: the wait-queue loop of notify_sockets
Walk ==
    /\ pc = "walk"
    /\ LET w == walk(Scheme, 1, cur_time, <<>>, <<>>)
       IN  /\ next_fd' = w.st.next_fd
           /\ nulls' = w.st.nulls
           /\ files' = w.st.files
           /\ sockets' = w.st.sockets
           /\ port_set' = w.st.port_set
           /\ wait_queue' = w.st.wait_queue
           /\ out' = Out("walk", 0, 0, None, w.replies, {}, {}, {}, NoArg, NoBuf,
                         w.visited)
    /\ pc' = "idle"
    /\ UNCHANGED <<now, cur_time, next_id, allocated, cfg>>

\* the monotonic clock advances between the steps of the loop
ClockAdvance ==
    /\ pc = "idle"
    /\ now.tv_sec < MaxSec
    /\ now' = add_time(now, cfg.step)
    /\ UNCHANGED <<next_fd, nulls, files, sockets, port_set, wait_queue, cur_time,
                   pc, next_id, allocated, out, cfg>>

----------------------------------------------------------------------------
(* Inputs.                                                                 *)

HalfSecond == TimeSpec(0, NSEC_PER_SEC \div 2)

EmptyPath == <<>>
RemoteA == Part("", 1, 1234)
RemoteB == Part("", 2, 4321)
NoRemote == Part("", 0, 0)
Local(p) == Part("", 0, p)
Word(w) == <<Part(w, 0, 0)>>

BlockingBuf == Buf(TIMESPEC_SIZE, 0, NSEC_PER_SEC \div 2)

\* handle life cycle: open, dup, close and ticks
CfgLife ==
    [packets |-> MaxAllocLife + 2, alloc |-> MaxAllocLife,
     paths |-> {EmptyPath, <<RemoteA, Local(5000)>>, <<RemoteA>>},
     names |-> {Word("read_timeout"), <<RemoteA>>},
     flags |-> {0}, uids |-> {0}, bufs |-> {BlockingBuf}, masks |-> {0},
     cmds |-> {F_GETFL}, step |-> HalfSecond, traffic |-> FALSE,
     overflow_checks |-> FALSE]

\* blocking reads and writes, timeouts and the wait queue
CfgWait ==
    [packets |-> MaxIo + 2, alloc |-> MaxAlloc,
     paths |-> {<<RemoteA, Local(5000)>>},
     names |-> {Word("read_timeout")},
     flags |-> {0, O_ACCMODE + O_NONBLOCK}, uids |-> {0}, bufs |-> {BlockingBuf},
     masks |-> {0}, cmds |-> {F_SETFL}, step |-> HalfSecond, traffic |-> TRUE,
     overflow_checks |-> FALSE]

InitWait == InitScheme /\ cfg = CfgWait
NextWait == Open \/ Dup \/ Close \/ Read \/ Write \/ Fcntl \/ ClockAdvance
            \/ Tick \/ Walk
SpecWait == InitWait /\ [][NextWait]_vars

\* event masks and the notifier
CfgEvents ==
    [packets |-> MaxAlloc + MaxIo, alloc |-> MaxAlloc,
     paths |-> {<<RemoteA, Local(5000)>>},
     names |-> {<<RemoteA>>},
     flags |-> {0}, uids |-> {0}, bufs |-> {BlockingBuf},
     masks |-> {EVENT_READ, EVENT_READ + EVENT_WRITE}, cmds |-> {F_SETFL},
     step |-> HalfSecond, traffic |-> TRUE, overflow_checks |-> FALSE]

InitEvents == InitScheme /\ cfg = CfgEvents
NextEvents == Open \/ Dup \/ Close \/ Read \/ Write \/ Fevent \/ Tick \/ Walk
SpecEvents == InitEvents /\ [][NextEvents]_vars

\* every verb, with the inputs of all the runs above
CfgAll ==
    [packets |-> MaxAlloc + MaxIo, alloc |-> MaxAlloc,
     paths |-> {EmptyPath, <<RemoteA, Local(5000)>>},
     names |-> {Word("read_timeout"), <<RemoteA>>},
     flags |-> {0, O_ACCMODE + O_NONBLOCK}, uids |-> {0}, bufs |-> {BlockingBuf},
     masks |-> {EVENT_READ + EVENT_WRITE}, cmds |-> {F_SETFL, F_GETFL},
     step |-> HalfSecond, traffic |-> TRUE, overflow_checks |-> FALSE]

Init == InitScheme /\ cfg = CfgAll
Next == Open \/ Dup \/ Close \/ Read \/ Write \/ Fevent \/ Fcntl \/ Fsync
        \/ ClockAdvance \/ Tick \/ Walk
Spec == Init /\ [][Next]_vars

\* opens by root and by an unprivileged caller, of privileged and other ports
User == 1000

CfgOpen ==
    [packets |-> MaxAllocLife + 1, alloc |-> MaxAllocLife,
     paths |-> {EmptyPath, <<RemoteA>>, <<RemoteA, Local(PRIVILEGED_MAX)>>,
                <<RemoteA, Local(PRIVILEGED_MAX + 1)>>},
     names |-> {<<RemoteA>>, <<RemoteA, Local(1)>>},
     flags |-> {0}, uids |-> {0, User}, bufs |-> {BlockingBuf}, masks |-> {0},
     cmds |-> {F_GETFL}, step |-> HalfSecond, traffic |-> FALSE,
     overflow_checks |-> FALSE]

InitOpen == InitScheme /\ cfg = CfgOpen
NextOpen == Open \/ Dup \/ Close
SpecOpen == InitOpen /\ [][NextOpen]_vars

\* remote endpoints: handles with and without one, clones, and writes
CfgData ==
    [packets |-> MaxAlloc + MaxIo, alloc |-> MaxAlloc + 1,
     paths |-> {<<NoRemote, Local(5000)>>, <<RemoteA, Local(5000)>>},
     names |-> {EmptyPath, <<RemoteB>>},
     flags |-> {0, O_NONBLOCK}, uids |-> {0}, bufs |-> {BlockingBuf}, masks |-> {0},
     cmds |-> {F_GETFL}, step |-> HalfSecond, traffic |-> TRUE,
     overflow_checks |-> FALSE]

InitData == InitScheme /\ cfg = CfgData
NextData == Open \/ Dup \/ Close \/ Write \/ Tick \/ Walk
SpecData == InitData /\ [][NextData]_vars

\* timeout settings written and read back through setting handles
CfgSettings ==
    [packets |-> MaxIo + 3, alloc |-> MaxIo,
     paths |-> {EmptyPath, <<RemoteA, Local(5000)>>},
     names |-> {Word("read_timeout"), Word("write_timeout")},
     flags |-> {0}, uids |-> {0},
     bufs |-> {BlockingBuf, Buf(TIMESPEC_SIZE, 1, 0)},
     masks |-> {0}, cmds |-> {F_GETFL}, step |-> HalfSecond, traffic |-> FALSE,
     overflow_checks |-> FALSE]

InitSettings == InitScheme /\ cfg = CfgSettings
NextSettings == Open \/ Dup \/ Close \/ Read \/ Write
SpecSettings == InitSettings /\ [][NextSettings]_vars

\* the flags of socket and null handles through fcntl
CfgFcntl ==
    [packets |-> MaxAlloc + MaxIo, alloc |-> MaxAlloc,
     paths |-> {EmptyPath, <<RemoteA>>},
     names |-> {<<RemoteA>>},
     flags |-> {0, O_ACCMODE + O_NONBLOCK, O_ACCMODE \div 3}, uids |-> {0},
     bufs |-> {BlockingBuf}, masks |-> {0}, cmds |-> {F_GETFL, F_SETFL, F_SETFD},
     step |-> HalfSecond, traffic |-> FALSE, overflow_checks |-> FALSE]

InitFcntl == InitScheme /\ cfg = CfgFcntl
NextFcntl == Open \/ Dup \/ Close \/ Fcntl
SpecFcntl == InitFcntl /\ [][NextFcntl]_vars

\* the notifier among socket, setting, null and closed handles
CfgNotify ==
    [packets |-> MaxIo + 2, alloc |-> MaxIo,
     paths |-> {EmptyPath, <<RemoteA, Local(5000)>>},
     names |-> {<<RemoteA>>, Word("read_timeout")},
     flags |-> {0}, uids |-> {0}, bufs |-> {BlockingBuf},
     masks |-> {EVENT_READ + EVENT_WRITE}, cmds |-> {F_GETFL},
     step |-> HalfSecond, traffic |-> TRUE, overflow_checks |-> FALSE]

InitNotify == InitScheme /\ cfg = CfgNotify
NextNotify == Open \/ Dup \/ Close \/ Fevent \/ Tick \/ Walk
SpecNotify == InitNotify /\ [][NextNotify]_vars

\* deadlines: timeouts of half a second and of 2 000 000 000 ns, in a build with
\* and in a build without overflow checks
CfgDeadline(checks) ==
    [packets |-> MaxAlloc + MaxIo, alloc |-> MaxAlloc,
     paths |-> {<<RemoteA, Local(5000)>>},
     names |-> {Word("read_timeout"), Word("write_timeout")},
     flags |-> {0}, uids |-> {0},
     bufs |-> {BlockingBuf, Buf(TIMESPEC_SIZE, 0, 2 * NSEC_PER_SEC)},
     masks |-> {0}, cmds |-> {F_GETFL}, step |-> HalfSecond, traffic |-> FALSE,
     overflow_checks |-> checks]

InitDeadline == InitScheme /\ cfg \in {CfgDeadline(checks) : checks \in BOOLEAN}
NextDeadline == Open \/ Dup \/ Read \/ Write \/ ClockAdvance \/ Tick \/ Walk
SpecDeadline == InitDeadline /\ [][NextDeadline]_vars

\* timeouts written and read with buffers of a full and of half a TimeSpec
ShortBuf == Buf(TIMESPEC_SIZE \div 2, 0, NSEC_PER_SEC \div 2)

CfgShort ==
    [packets |-> MaxIo + 3, alloc |-> MaxIo,
     paths |-> {<<RemoteA, Local(5000)>>},
     names |-> {Word("read_timeout"), Word("write_timeout")},
     flags |-> {0}, uids |-> {0}, bufs |-> {BlockingBuf, ShortBuf},
     masks |-> {0}, cmds |-> {F_GETFL}, step |-> HalfSecond, traffic |-> FALSE,
     overflow_checks |-> FALSE]

InitShort == InitScheme /\ cfg = CfgShort
NextShort == Open \/ Dup \/ Close \/ Read \/ Write
SpecShort == InitShort /\ [][NextShort]_vars

\* a daemon that has run for long: next_fd, which only grows (by one per open
\* or dup, closes do not give numbers back), has reached the number of a verb
CfgFar ==
    [packets |-> MaxIo + 2, alloc |-> MaxAlloc,
     paths |-> {<<RemoteA, Local(5000)>>},
     names |-> {<<RemoteA>>},
     flags |-> {0}, uids |-> {0}, bufs |-> {BlockingBuf}, masks |-> {0},
     cmds |-> {F_GETFL}, step |-> HalfSecond, traffic |-> TRUE,
     overflow_checks |-> FALSE]

\* the state after next_fd - 1 handles were opened and closed again
InitFar ==
    /\ next_fd \in {SYS_WRITE, SYS_READ}
    /\ nulls = Empty
    /\ files = Empty
    /\ sockets = Empty
    /\ port_set = PortSetNew
    /\ wait_queue = <<>>
    /\ now = TimeSpec(0, 0)
    /\ cur_time = TimeSpec(0, 0)
    /\ pc = "idle"
    /\ next_id = 1
    /\ allocated = <<>>
    /\ out = Out("new", 0, 0, None, <<>>, {}, {}, {}, NoArg, NoBuf, <<>>)
    /\ cfg = CfgFar
NextFar == Open \/ Dup \/ Close \/ Read \/ Write \/ Tick \/ Walk
SpecFar == InitFar /\ [][NextFar]_vars

InitLife == InitScheme /\ cfg = CfgLife
NextLife == Open \/ Dup \/ Close \/ Tick \/ Walk
SpecLife == InitLife /\ [][NextLife]_vars

----------------------------------------------------------------------------
(* Claims on the handle life cycle.                                        *)

Live == DOMAIN files \cup DOMAIN nulls
SocketFds == {f \in DOMAIN files : IsSocket(files[f])}

\* C1 (state part): a socket key is in the stack iff some socket or setting
\* handle of the handle table refers to it.
C1_AliveIffReferenced ==
    DOMAIN sockets = {files[f].socket_handle : f \in DOMAIN files}

\* C1 (close part): a successful close(fd) of a socket or setting handle removes
\* the socket from the stack exactly when fd was the last handle referring to it.
C1_CloseStep ==
    \A fd \in DOMAIN files :
        (out'.op = "close" /\ out'.fd = fd /\ out'.res = Some(0))
        => ((files[fd].socket_handle \notin DOMAIN sockets')
            <=> (Refs(files, files[fd].socket_handle) = {fd}))

\* C1: in every reachable state a socket key is present in the stack iff at
\* least one socket or setting handle refers to it, and close(fd) removes the
\* socket exactly when fd was the last handle referring to its key.
C1_SocketLifetime == [](C1_AliveIffReferenced) /\ [][C1_CloseStep]_vars

\* C1 witness: a handle was closed and its socket lives on, kept by a setting
\* handle that was duplicated from the closed handle.
C1_Witness ==
    /\ out.op = "close" /\ out.res = Some(0)
    /\ \E f \in DOMAIN files :
          /\ ~IsSocket(files[f]) /\ files[f].fd = out.fd
          /\ files[f].socket_handle \in DOMAIN sockets

\* C8: the handle IDs returned by successful open and dup calls are strictly
\* increasing over the whole run, so no ID is ever reused.
C8_IdsStrictlyIncreasing ==
    \A i, j \in 1..Len(allocated) : i < j => allocated[i] < allocated[j]

\* C8 witness: an ID was allocated after an earlier handle had been closed.
C8_Witness ==
    /\ out.op \in {"open", "dup"} /\ IsSome(out.res)
    /\ Len(allocated) >= 2
    /\ allocated[Len(allocated)] = Unwrap(out.res)
    /\ \E i \in 1..(Len(allocated) - 1) : allocated[i] \notin Live

\* C9 (state part): while a socket handle is open the local port of its socket
\* is claimed in the port set.
C9_PortClaimedWhileOpen ==
    \A f \in DOMAIN files :
        IsSocket(files[f])
        => sockets[files[f].socket_handle].port \in DOMAIN port_set.ports

\* C9 (close part): closing the last socket handle of a socket returns the
\* socket's local port to the port set.
C9_LastCloseStep ==
    \A fd \in DOMAIN files :
        (/\ out'.op = "close" /\ out'.fd = fd /\ out'.res = Some(0)
         /\ IsSocket(files[fd])
         /\ SocketRefs(files, files[fd].socket_handle) = {fd})
        => sockets[files[fd].socket_handle].port \notin DOMAIN port_set'.ports

\* C9: the local port of a UDP socket stays claimed in the port set while at
\* least one socket handle created for it through open and dup is open, and is
\* returned to the port set when the last of them is closed.
C9_PortHeldUntilLastClose ==
    [](C9_PortClaimedWhileOpen) /\ [][C9_LastCloseStep]_vars

\* C25: no two sockets alive in the stack are bound to the same local port,
\* and the port of every live socket is claimed in the port set, sockets that
\* only setting handles still refer to included.
C25_PortsExclusive ==
    /\ \A h, k \in DOMAIN sockets : sockets[h].port = sockets[k].port => h = k
    /\ \A h \in DOMAIN sockets : sockets[h].port \in DOMAIN port_set.ports

----------------------------------------------------------------------------
(* Claims on the UDP adapter's open, write and dup.                        *)

\* the caller's uid and the local port named by the path of the open that the
\* next step handles: an open request, or a dup of a null handle, which opens
\* with the uid stored in the null handle
OpenUid == IF out'.op = "open" THEN out'.arg.uid ELSE nulls[out'.fd].uid
OpenPort == IF Len(out'.arg.path) >= 2 /\ out'.arg.path[2].word = ""
            THEN out'.arg.path[2].port ELSE 0
IsOpen == out'.id = next_id
          /\ (out'.op = "open" \/ (out'.op = "dup" /\ out'.fd \in DOMAIN nulls))
          /\ Len(out'.arg.path) > 0

\* C11: a UDP open naming a local port in (0, 1024] by a caller with non-zero
\* uid fails with EACCES and leaves the handle table, the next handle ID, the
\* port set and the stack's sockets unchanged; an open by uid 0 is never
\* rejected with EACCES.
C11_Step ==
    IsOpen
    => /\ (OpenPort > 0 /\ OpenPort <= 1024 /\ OpenUid # 0)
          => /\ out'.res = Some(0 - EACCES)
             /\ UNCHANGED <<files, nulls, next_fd, port_set, sockets>>
       /\ OpenUid = 0 => out'.res # Some(0 - EACCES)

C11_PrivilegedPort == [][C11_Step]_vars

\* C11 witness: an unprivileged open of port 1024 was just refused with EACCES
\* while root holds a socket on that port.
C11_Witness ==
    /\ out.op = "open" /\ out.res = Some(0 - EACCES) /\ out.arg.uid # 0
    /\ out.arg.path = <<RemoteA, Local(1024)>>
    /\ \E h \in DOMAIN sockets : sockets[h].port = 1024

\* C12: a write on a socket handle whose remote endpoint is unspecified is
\* replied EADDRNOTAVAIL at once: it is not parked and nothing is sent, whether
\* the handle is blocking or not and whether the socket can send or not.
C12_Step ==
    \A fd \in DOMAIN files :
        (/\ out'.op = "write" /\ out'.fd = fd /\ out'.id = next_id
         /\ IsSocket(files[fd])
         /\ (files[fd].data.addr = 0 \/ files[fd].data.port = 0))
        => /\ out'.res = Some(0 - EADDRNOTAVAIL)
           /\ Len(out'.replies) = 1
           /\ out'.replies[1].id = next_id
           /\ out'.replies[1].val = 0 - EADDRNOTAVAIL
           /\ UNCHANGED <<wait_queue, sockets>>

C12_NoRemoteWrite == [][C12_Step]_vars

\* C12 witness: a write on a blocking handle without remote endpoint was just
\* refused with EADDRNOTAVAIL while the socket's tx buffer is full.
C12_Witness ==
    /\ out.op = "write" /\ out.res = Some(0 - EADDRNOTAVAIL)
    /\ out.fd \in DOMAIN files
    /\ files[out.fd].flags = 0
    /\ Len(sockets[files[out.fd].socket_handle].tx) >= BufCap

SettingNames == {Word("hop_limit"), Word("read_timeout"), Word("write_timeout")}

\* C13 (dup part): dup(fd, name) of a socket handle with a name that is no
\* setting returns a new socket handle on the same socket key, whose remote
\* endpoint is the one parsed from the name when it is specified and the
\* parent's otherwise; the parent handle is left as it was.
C13_DupStep ==
    \A fd \in DOMAIN files :
        (/\ out'.op = "dup" /\ out'.fd = fd /\ out'.id = next_id
         /\ IsSocket(files[fd]) /\ out'.arg.path \notin SettingNames)
        => LET ep == parse_name(out'.arg.path)
           IN  /\ out'.res = Some(next_fd)
               /\ next_fd \notin DOMAIN files
               /\ DOMAIN files' = DOMAIN files \cup {next_fd}
               /\ files'[next_fd].kind = "Socket"
               /\ files'[next_fd].socket_handle = files[fd].socket_handle
               /\ files'[next_fd].data =
                     IF ep.addr # 0 /\ ep.port # 0 THEN ep ELSE files[fd].data
               /\ files'[fd] = files[fd]

\* C13 (write part): a write that a socket handle completes sends one datagram
\* to the remote endpoint of that handle.
C13_WriteStep ==
    \A fd \in DOMAIN files :
        (/\ out'.op = "write" /\ out'.fd = fd /\ out'.id = next_id
         /\ IsSocket(files[fd]) /\ out'.res # None /\ out'.res[1] >= 0)
        => sockets'[files[fd].socket_handle].tx =
              Append(sockets[files[fd].socket_handle].tx, files[fd].data)

\* C13: UDP dup of a socket handle with a non-setting name clones the handle
\* onto the same socket with the named remote endpoint (or the parent's when
\* the name gives none) and leaves the parent unchanged, so that writes on
\* parent and clone go to their respective remotes.
C13_DupRemote == [][C13_DupStep /\ C13_WriteStep]_vars

\* C13 witness: a clone with a remote endpoint of its own has just sent a
\* datagram there, while its socket has another handle with another remote.
C13_Witness ==
    /\ out.op = "write" /\ out.res # None /\ out.fd \in DOMAIN files
    /\ LET h == files[out.fd].socket_handle
       IN  /\ sockets[h].tx = <<files[out.fd].data>>
           /\ files[out.fd].data = Endpoint(2, 4321)
           /\ \E g \in SocketRefs(files, h) : files[g].data = Endpoint(1, 1234)

----------------------------------------------------------------------------
(* Claims on blocking requests and the wait queue.                         *)

TimeLt(a, b) == a.tv_sec < b.tv_sec \/ (a.tv_sec = b.tv_sec /\ a.tv_nsec < b.tv_nsec)
TimeLe(a, b) == a = b \/ TimeLt(a, b)

Parked == {wait_queue[i] : i \in 1..Len(wait_queue)}
Written == {out.replies[i] : i \in 1..Len(out.replies)}

\* C2: after close(fd) has returned, the wait queue holds no parked request
\* whose target handle is fd.
C2_CloseDropsParked ==
    (out.op = "close" /\ out.res = Some(0))
    => \A w \in Parked : w.packet.b # out.fd

\* C3 (as claimed): right after the wait-queue walk of a tick no entry left in
\* the wait queue has a deadline less than or equal to the time read for the walk.
C3_NoDeadlineAtOrBefore ==
    out.op = "walk"
    => \A w \in Parked : IsSome(w.until) => ~TimeLe(Unwrap(w.until), cur_time)

\* C3 (amended): right after the wait-queue walk of a tick no entry left in the
\* wait queue has a deadline strictly less than the time read for the walk.
C3_NoDeadlineBefore ==
    out.op = "walk"
    => \A w \in Parked : IsSome(w.until) => ~TimeLt(Unwrap(w.until), cur_time)

\* C3 witness: a walk timed a parked request out and kept another whose
\* deadline equals the time read for the walk.
C3_Witness ==
    /\ out.op = "walk"
    /\ \E r \in Written : r.val = 0 - ETIMEDOUT
    /\ \E w \in Parked : w.until = Some(cur_time)

\* C4: a request parked with a deadline on a handle that is still open, replied
\* by a walk after the deadline has passed without the socket being ready, is
\* replied ETIMEDOUT (never EAGAIN).
C4_ExpiredIsTimedOut ==
    out.op = "walk"
    => \A r \in Written :
          (/\ r.parked /\ IsSome(r.until) /\ TimeLt(Unwrap(r.until), cur_time)
           /\ r.b \in DOMAIN files /\ r.val < 0)
          => r.val = 0 - ETIMEDOUT

\* C5: a reply to a request on a handle is never written while an earlier
\* request on the same handle is still parked, unreplied.
C5_RepliesInArrivalOrder ==
    \A r \in Written : \A w \in Parked : ~(w.packet.b = r.b /\ w.packet.id < r.id)

\* C10: a read (write) request on a socket handle that finds the socket unable
\* to receive (send) is replied EAGAIN at once and not parked when the stored
\* flags contain O_NONBLOCK; otherwise it is parked and no reply is written.
C10_Step ==
    \A fd \in DOMAIN files :
        LET file == files[fd]
            sock == sockets[file.socket_handle]
            stuck == \/ (out'.op = "read" /\ sock.rx = 0)
                     \/ (out'.op = "write" /\ is_specified(file.data)
                         /\ Len(sock.tx) >= BufCap)
        IN  (IsSocket(file) /\ out'.fd = fd /\ out'.id = next_id /\ stuck)
            => IF (file.flags \div O_NONBLOCK) % 2 = 1
               THEN /\ out'.res = Some(0 - EAGAIN)
                    /\ Len(out'.replies) = 1
                    /\ out'.replies[1].id = next_id
                    /\ out'.replies[1].val = 0 - EAGAIN
                    /\ wait_queue' = wait_queue
               ELSE /\ out'.res = None
                    /\ out'.replies = <<>>
                    /\ Len(wait_queue') = Len(wait_queue) + 1
                    /\ SubSeq(wait_queue', 1, Len(wait_queue)) = wait_queue
                    /\ wait_queue'[Len(wait_queue')].packet.id = next_id
                    /\ wait_queue'[Len(wait_queue')].packet.b = fd

C10_NonblockOrPark == [][C10_Step]_vars

\* C10 witness: a write on a non-blocking handle was just refused with EAGAIN
\* while an earlier blocking request is parked.
C10_Witness ==
    /\ out.op = "write" /\ out.res = Some(0 - EAGAIN)
    /\ \E w \in Parked : w.packet.id < out.id

\* C18 (state part): no entry of the wait queue targets a null handle or a
\* setting handle.
C18_ParkedTargets ==
    \A w \in Parked :
        /\ w.packet.b \notin DOMAIN nulls
        /\ w.packet.b \in DOMAIN files => files[w.packet.b].kind = "Socket"

\* C18 (step part): an entry is enqueued only for a request that targets an
\* open socket handle; a request that targets a null handle, and a read or a
\* write on a setting handle, is replied at once and not parked.
C18_Step ==
    /\ Len(wait_queue') > Len(wait_queue)
       => LET w == wait_queue'[Len(wait_queue')]
          IN  /\ w.packet.id = next_id
              /\ w.packet.b \in DOMAIN files
              /\ files[w.packet.b].kind = "Socket"
    /\ (/\ out'.id = next_id
        /\ \/ out'.fd \in DOMAIN nulls
           \/ /\ out'.fd \in DOMAIN files /\ files[out'.fd].kind = "Setting"
              /\ out'.op \in {"read", "write"})
       => /\ out'.res # None
          /\ Len(out'.replies) = 1
          /\ out'.replies[1].id = next_id
          /\ wait_queue' = wait_queue

\* C18: every entry of the wait queue was parked for a request targeting a
\* socket handle: requests on null handles are never parked, and reads and
\* writes on setting handles complete at once, with a value or an error.
C18_OnlySocketsParked == [](C18_ParkedTargets) /\ [][C18_Step]_vars

\* C18 witness: a read on a setting handle was just replied while a request on
\* a socket handle is parked and a null handle is open.
C18_Witness ==
    /\ out.op = "read" /\ out.res # None
    /\ out.fd \in DOMAIN files /\ files[out.fd].kind = "Setting"
    /\ wait_queue # <<>>
    /\ DOMAIN nulls # {}

\* the sum of the non-negative times a and b, normalised
TimeSum(a, b) ==
    LET n == (a.tv_nsec % 1000000000) + (b.tv_nsec % 1000000000)
    IN  [tv_sec |-> a.tv_sec + b.tv_sec + (a.tv_nsec \div 1000000000)
                    + (b.tv_nsec \div 1000000000) + (n \div 1000000000),
         tv_nsec |-> n % 1000000000]

\* the deadline claimed for a request of verb op parked now on socket handle fd
Deadline(op, fd) ==
    LET t == IF op = "read" THEN files[fd].read_timeout
             ELSE IF op = "write" THEN files[fd].write_timeout
             ELSE <<>>
    IN  IF t = <<>> THEN <<>> ELSE <<TimeSum(now, t[1])>>

\* C19 (park part): a request on a socket handle that does not complete is
\* enqueued with the deadline: the monotonic time plus the handle's read
\* timeout for a read, plus its write timeout for a write, none when that
\* timeout is unset.
C19_ParkStep ==
    \A fd \in SocketFds :
        (out'.id = next_id /\ out'.fd = fd /\ out'.res = None)
        => /\ Len(wait_queue') = Len(wait_queue) + 1
           /\ wait_queue'[Len(wait_queue')].packet.id = next_id
           /\ wait_queue'[Len(wait_queue')].until = Deadline(out'.op, fd)

\* C19 (frame part): no step changes the deadline of an entry that stays parked.
C19_KeptStep ==
    \A i \in 1..Len(wait_queue) : \A j \in 1..Len(wait_queue') :
        wait_queue'[j].packet.id = wait_queue[i].packet.id
        => wait_queue'[j].until = wait_queue[i].until

\* C19 (timeout part): an entry parked without a deadline is not replied
\* ETIMEDOUT.
C19_NoDeadlineNoTimeout ==
    \A r \in Written : (r.parked /\ r.until = <<>>) => r.val # 0 - ETIMEDOUT

\* C19: a parked request's deadline is the monotonic time at parking plus the
\* handle's read (write) timeout configured at that moment, none when it is
\* unset; later changes of the timeout do not alter it, and an entry without a
\* deadline is never replied ETIMEDOUT.
C19_DeadlineIsNowPlusTimeout ==
    [](C19_NoDeadlineNoTimeout) /\ [][C19_ParkStep /\ C19_KeptStep]_vars

\* C19 without its park part: what the code does keep of the claim
C19_DeadlineKept == [](C19_NoDeadlineNoTimeout) /\ [][C19_KeptStep]_vars

\* the packet ids of a sequence of entries or of replies
Ids(q) == [i \in 1..Len(q) |-> IF "packet" \in DOMAIN q[i] THEN q[i].packet.id
                                ELSE q[i].id]

\* C20: a walk replays every entry that is parked when it starts exactly once,
\* in insertion order; it replies the entries it removes in that order, an
\* entry whose replay completes with the replay's result even when its
\* deadline has passed; the entries it keeps stay in their relative order.
C20_Step ==
    (pc = "walk" /\ pc' = "idle")
    => LET replied == {out'.replies[i].id : i \in 1..Len(out'.replies)}
       IN  /\ out'.visited = Ids(wait_queue)
           /\ wait_queue' = SelectSeq(wait_queue, LAMBDA w : w.packet.id \notin replied)
           /\ Ids(out'.replies) = SelectSeq(Ids(wait_queue), LAMBDA id : id \in replied)
           /\ wait_queue # <<>>
              => LET first == Mux(handle(Scheme, wait_queue[1].packet).res)
                 IN  first # None
                     => /\ out'.replies # <<>>
                        /\ out'.replies[1].id = wait_queue[1].packet.id
                        /\ out'.replies[1].val = first[1]

C20_WalkStable == [][C20_Step]_vars

\* C20 witness: a walk replayed two entries, completed a read whose deadline
\* had passed, and kept the other entry.
C20_Witness ==
    /\ out.op = "walk" /\ Len(out.visited) >= 2 /\ wait_queue # <<>>
    /\ \E r \in Written :
          /\ r.val >= 0 /\ r.until # <<>>
          /\ TimeLt(r.until[1], cur_time)

\* handling the parked packet of w again now blocks again and changes nothing
C21_Replays(w) ==
    LET r == handle(Scheme, w.packet)
    IN  r.res = Block /\ r.st = Scheme

\* C21 (state part): right after a read or a write was parked, and right after
\* a walk for every entry it kept, handling the same packet again on the
\* unchanged state blocks again.
C21_BlockedAgain ==
    /\ (out.op \in {"read", "write"} /\ out.res = None /\ out.replies = <<>>)
       => /\ wait_queue # <<>>
          /\ wait_queue[Len(wait_queue)].packet.id = out.id
          /\ C21_Replays(wait_queue[Len(wait_queue)])
    /\ out.op = "walk" => \A w \in Parked : C21_Replays(w)

\* C21 (walk part): a walk over entries that all block again and of which no
\* deadline has expired writes no reply and leaves the wait queue, the handle
\* table, the sockets and the port set unchanged.
C21_Step ==
    (/\ pc = "walk" /\ pc' = "idle"
     /\ \A w \in Parked :
           /\ C21_Replays(w)
           /\ ~(IsSome(w.until) /\ Expired(Unwrap(w.until), cur_time)))
    => /\ out'.replies = <<>>
       /\ UNCHANGED <<wait_queue, files, nulls, sockets, port_set, next_fd>>

\* C21: replay is deterministic: a read or write that blocked blocks again when
\* handled again with no handle, socket or port-set state changed, so a walk
\* with no state change and no expired deadline writes no reply and leaves the
\* wait queue, the handle table and the sockets unchanged.
C21_ReplayDeterministic == [](C21_BlockedAgain) /\ [][C21_Step]_vars

\* C21 witness: a walk replayed two parked requests, one of them with a
\* deadline still ahead, replied none and kept both.
C21_Witness ==
    /\ out.op = "walk" /\ out.replies = <<>>
    /\ Len(out.visited) >= 2 /\ Len(wait_queue) >= 2
    /\ \E w \in Parked : IsSome(w.until) /\ ~Expired(Unwrap(w.until), cur_time)

\* C24: close(fd) takes out of the wait queue only entries whose request
\* targets fd: the entries that target another handle all stay parked, in
\* their order, whatever the number fd and the verbs of the parked packets.
C24_Step ==
    (out'.op = "close" /\ out'.id = next_id)
    => SelectSeq(wait_queue', LAMBDA w : w.packet.b # out'.fd)
       = SelectSeq(wait_queue, LAMBDA w : w.packet.b # out'.fd)

C24_CloseKeepsOthers == [][C24_Step]_vars

\* the packet ids parked in queue q
IdSet(q) == {q[i].packet.id : i \in 1..Len(q)}

\* C26 (state part): a packet is parked at most once, and only packets already
\* read from the request channel are parked.
C26_ParkedOnce ==
    /\ \A i, j \in 1..Len(wait_queue) :
          wait_queue[i].packet.id = wait_queue[j].packet.id => i = j
    /\ \A id \in IdSet(wait_queue) : id < next_id

\* C26 (step part): the step that handles a request writes at most one reply,
\* to that request, and then does not park it, and parks no other packet; a
\* walk replies only parked packets, each at most once, and removes each from
\* the queue in the same step, and parks none; the notifier step writes no
\* reply and leaves the queue alone.
C26_Step ==
    /\ next_id' = next_id + 1
       => /\ Len(out'.replies) <= 1
          /\ \A i \in 1..Len(out'.replies) : out'.replies[i].id = next_id
          /\ out'.replies # <<>> => next_id \notin IdSet(wait_queue')
          /\ IdSet(wait_queue') \subseteq IdSet(wait_queue) \cup {next_id}
    /\ (pc = "walk" /\ pc' = "idle")
       => /\ \A i, j \in 1..Len(out'.replies) :
                out'.replies[i].id = out'.replies[j].id => i = j
          /\ \A i \in 1..Len(out'.replies) :
                /\ out'.replies[i].id \in IdSet(wait_queue)
                /\ out'.replies[i].id \notin IdSet(wait_queue')
          /\ IdSet(wait_queue') \subseteq IdSet(wait_queue)
    /\ (pc = "idle" /\ pc' = "walk")
       => /\ out'.replies = <<>>
          /\ wait_queue' = wait_queue
    /\ next_id' # next_id => next_id' = next_id + 1

\* C26: every request packet gets at most one reply: it is replied at once or
\* parked, never both, and a parked packet leaves the wait queue in the step
\* that writes its reply, so none is replied twice.
C26_AtMostOneReply == [](C26_ParkedOnce) /\ [][C26_Step]_vars

\* C26 witness: one walk replied the two parked requests, one with the result
\* of its replay and one with ETIMEDOUT, and emptied the queue.
C26_Witness ==
    /\ out.op = "walk" /\ Len(out.replies) = 2 /\ wait_queue = <<>>
    /\ \E r \in Written : r.val = 0 - ETIMEDOUT
    /\ \E r \in Written : r.val >= 0

----------------------------------------------------------------------------
(* Claims on settings and flags.                                           *)

\* the setting handles of a timeout whose parent is an open socket handle
TimeoutFds ==
    {s \in DOMAIN files :
        /\ files[s].kind = "Setting"
        /\ files[s].setting \in {"ReadTimeout", "WriteTimeout"}
        /\ files[s].fd \in DOMAIN files
        /\ files[files[s].fd].kind = "Socket"}

\* C14 (write part): writing a duration D with a full-size buffer to the
\* setting handle of a timeout stores D as that timeout of the parent handle
\* and leaves the timeout of the other direction unchanged.
C14_WriteStep ==
    \A s \in TimeoutFds :
        (/\ out'.op = "write" /\ out'.fd = s /\ out'.id = next_id
         /\ out'.arg.buf.len = 16)
        => LET p == files[s].fd
               D == [tv_sec |-> out'.arg.buf.tv_sec, tv_nsec |-> out'.arg.buf.tv_nsec]
           IN  /\ out'.res = Some(16)
               /\ IF files[s].setting = "ReadTimeout"
                  THEN /\ files'[p].read_timeout = <<D>>
                       /\ files'[p].write_timeout = files[p].write_timeout
                  ELSE /\ files'[p].write_timeout = <<D>>
                       /\ files'[p].read_timeout = files[p].read_timeout

\* C14 (read part): a read with a full-size buffer that directly follows such
\* a write on the same setting handle returns the 16 bytes of D.
C14_ReadStep ==
    \A s \in TimeoutFds :
        (/\ out.op = "write" /\ out.fd = s /\ out.res = Some(16)
         /\ out'.op = "read" /\ out'.fd = s /\ out'.id = next_id
         /\ out'.arg.buf.len = 16)
        => /\ out'.res = Some(16)
           /\ out'.data = [len |-> 16, tv_sec |-> out.arg.buf.tv_sec,
                                       tv_nsec |-> out.arg.buf.tv_nsec]

\* C14: after dup(fd, "read_timeout") (or "write_timeout") of a socket handle,
\* writing D to the setting handle with a full-size buffer and then reading it
\* back returns exactly D, and the timeout of the other direction is unchanged.
C14_TimeoutRoundTrip == [][C14_WriteStep /\ C14_ReadStep]_vars

\* C14 witness: one second was just read back from a setting handle, right
\* after it was written, while the other timeout of the parent is half a second.
C14_Witness ==
    /\ out.op = "read" /\ out.res = Some(16)
    /\ out.data = [len |-> 16, tv_sec |-> 1, tv_nsec |-> 0]
    /\ out.fd \in TimeoutFds
    /\ LET p == files[files[out.fd].fd]
       IN  {p.read_timeout, p.write_timeout} =
              {<<[tv_sec |-> 1, tv_nsec |-> 0]>>, <<[tv_sec |-> 0, tv_nsec |-> 500000000]>>}

\* the flags stored in socket or null handle fd
Flags(fd) == IF fd \in DOMAIN nulls THEN nulls[fd].flags ELSE files[fd].flags

\* x & ~O_ACCMODE: x without its bits 16 and 17
WithoutAccMode(x) ==
    x - (IF (x \div 65536) % 2 = 1 THEN 65536 ELSE 0)
      - (IF (x \div 131072) % 2 = 1 THEN 131072 ELSE 0)

\* C15: on a socket or null handle, fcntl(F_SETFL, x) directly followed by
\* fcntl(F_GETFL) returns x & ~O_ACCMODE (F_SETFL stores that value, F_GETFL
\* returns the stored flags); any other command fails with EINVAL and leaves
\* the stored flags unchanged.
C15_Step ==
    \A fd \in DOMAIN nulls \cup {f \in DOMAIN files : files[f].kind = "Socket"} :
        (out'.op = "fcntl" /\ out'.fd = fd /\ out'.id = next_id)
        => /\ out'.arg.cmd = 4
              => /\ out'.res = Some(0)
                 /\ (IF fd \in DOMAIN nulls THEN nulls'[fd].flags ELSE files'[fd].flags)
                       = WithoutAccMode(out'.arg.val)
           /\ out'.arg.cmd = 3
              => /\ out'.res = Some(Flags(fd))
                 /\ UNCHANGED <<files, nulls>>
                 /\ (out.op = "fcntl" /\ out.fd = fd /\ out.arg.cmd = 4)
                    => out'.res = Some(WithoutAccMode(out.arg.val))
           /\ out'.arg.cmd \notin {3, 4}
              => /\ out'.res = Some(0 - EINVAL)
                 /\ UNCHANGED <<files, nulls>>

C15_FlagsRoundTrip == [][C15_Step]_vars

\* C15 witness: F_GETFL just returned O_NONBLOCK alone from a null handle; no
\* handle of the run is opened with these flags, so they were stored by a
\* F_SETFL whose argument had the access-mode bits too.
C15_Witness ==
    /\ out.op = "fcntl" /\ out.arg.cmd = 3 /\ out.res = Some(262144)
    /\ out.fd \in DOMAIN nulls

\* C22 (setting part): on the setting handle of a timeout whose parent is an
\* open socket handle, a read or a write with a buffer shorter than a TimeSpec
\* is replied 0; the write leaves that timeout of the parent unset and the
\* other one as it was, the read changes nothing; and a read of a timeout that
\* is unset is replied 0 whatever the buffer.
C22_SettingStep ==
    \A s \in TimeoutFds :
        LET p == files[s].fd
            mine == IF files[s].setting = "ReadTimeout" THEN files[p].read_timeout
                    ELSE files[p].write_timeout
        IN  (out'.id = next_id /\ out'.fd = s)
            => /\ (out'.op = "write" /\ out'.arg.buf.len < TIMESPEC_SIZE)
                  => /\ out'.res = Some(0)
                     /\ IF files[s].setting = "ReadTimeout"
                        THEN /\ files'[p].read_timeout = None
                             /\ files'[p].write_timeout = files[p].write_timeout
                        ELSE /\ files'[p].write_timeout = None
                             /\ files'[p].read_timeout = files[p].read_timeout
               /\ (out'.op = "read"
                   /\ (out'.arg.buf.len < TIMESPEC_SIZE \/ mine = None))
                  => /\ out'.res = Some(0)
                     /\ files' = files

\* C22 (park part): a read (write) on a socket handle whose read (write)
\* timeout is unset, when it blocks, is parked without a deadline.
C22_ParkStep ==
    \A fd \in SocketFds :
        (/\ out'.id = next_id /\ out'.fd = fd /\ out'.res = None
         /\ \/ out'.op = "read" /\ files[fd].read_timeout = None
            \/ out'.op = "write" /\ files[fd].write_timeout = None)
        => /\ wait_queue' # <<>>
           /\ wait_queue'[Len(wait_queue')].packet.id = next_id
           /\ wait_queue'[Len(wait_queue')].until = None

C23_DupStep ==
    \A fd \in DOMAIN files :
        (/\ out'.op = "dup" /\ out'.fd = fd /\ out'.id = next_id
         /\ \E n \in {"hop_limit", "read_timeout", "write_timeout"} :
               IsWord(out'.arg.path, n))
        => /\ out'.res = Some(next_fd)
           /\ next_fd \in DOMAIN files'
           /\ files'[next_fd].kind = "Setting"
           /\ files'[next_fd].socket_handle = files[fd].socket_handle
           /\ files'[next_fd].socket_handle \in DOMAIN sockets'

\* C23 (use part): a read or a write on an open setting handle is served: it
\* is replied a byte count, not an error.
C23_UseStep ==
    \A s \in DOMAIN files :
        (/\ files[s].kind = "Setting"
         /\ out'.op \in {"read", "write"} /\ out'.fd = s /\ out'.id = next_id)
        => /\ out'.res # None
           /\ Unwrap(out'.res) >= 0

\* C23: dup(fd, name) with the name of a setting on any open socket or setting
\* handle creates a setting handle on fd's socket, and for as long as it is
\* open reads and writes on it get and set the attribute, also when fd is
\* itself a setting handle and after the handle it was duplicated from has
\* been closed.
C23_SettingHandleServes == [][C23_DupStep /\ C23_UseStep]_vars

\* C23 without its use part: what the code does keep of the claim
C23_SettingHandleMade == [][C23_DupStep]_vars

----------------------------------------------------------------------------
(* Claims on the event notifier.                                           *)

WantsRead(f) == files[f].events % 2 = 1
PostedRead(f) == \E e \in out.events : e.fd = f /\ e.flags % 2 = 1

\* C6: each time a datagram arrives at a socket that holds none, the next
\* notifier run posts a READ event for every socket handle of that socket whose
\* event mask includes READ.
C6_ArrivalPostsRead ==
    out.op = "notify"
    => \A f \in SocketFds :
          (WantsRead(f) /\ files[f].socket_handle \in out.arrived) => PostedRead(f)

\* C7: right after each notifier run, read_notified(h) holds only if the socket
\* of h can receive now (or cannot receive further) and write_notified(h) only
\* if it can send; a flag whose condition is false has been cleared by the run.
C7_FlagsImplyCondition ==
    pc = "walk"
    => \A f \in SocketFds :
          /\ files[f].read_notified => sockets[files[f].socket_handle].rx > 0
          /\ files[f].write_notified => Len(sockets[files[f].socket_handle].tx) < BufCap

\* C7 witness: the notifier run just cleared a flag of one handle (its
\* condition fell) while a flag of a handle is set.
C7_Witness ==
    /\ pc = "walk"
    /\ out.fell # {}
    /\ \E f \in SocketFds : files[f].read_notified \/ files[f].write_notified

\* the subset of mask M whose conditions hold at socket sock: READ when a
\* datagram is waiting, WRITE when the tx buffer has room
Ready(M, sock) ==
    (IF M % 2 = 1 /\ sock.rx > 0 THEN 1 ELSE 0)
    + (IF (M \div 2) % 2 = 1 /\ Len(sock.tx) < BufCap THEN 2 ELSE 0)

\* C16: fevent(fd, M) on a socket handle returns exactly the subset of M whose
\* conditions are satisfied when it is called, whatever the notified flags of
\* the handle were; an fevent(fd, M) that directly follows an fevent(fd, M)
\* returns the same mask.
C16_Step ==
    \A fd \in SocketFds :
        (out'.op = "fevent" /\ out'.fd = fd /\ out'.id = next_id)
        => /\ out'.res = Some(Ready(out'.arg.val, sockets[files[fd].socket_handle]))
           /\ (out.op = "fevent" /\ out.fd = fd /\ out.arg.val = out'.arg.val)
              => out'.res = out.res

C16_FeventReady == [][C16_Step]_vars

\* C16 witness: an fevent with mask READ|WRITE just returned READ alone, on a
\* socket that holds a datagram and whose tx buffer is full.
C16_Witness ==
    /\ out.op = "fevent" /\ out.arg.val = 3 /\ out.res = Some(1)
    /\ out.fd \in SocketFds
    /\ sockets[files[out.fd].socket_handle].rx > 0
    /\ files[out.fd].read_notified

\* C17: every event packet posted names a handle ID that is an open socket
\* handle when it is posted: none names a closed handle, a setting handle or a
\* null handle, and only the notifier of a tick posts events.
C17_EventsOnlyForOpenSockets ==
    /\ \A e \in out.events :
          /\ e.fd \in DOMAIN files
          /\ files[e.fd].kind = "Socket"
          /\ e.fd \notin DOMAIN nulls
    /\ out.events # {} => out.op = "notify"

\* C17 witness: a notifier run just posted an event for a socket handle while
\* another handle of the same socket has been closed and a setting handle of
\* that socket is open.
C17_Witness ==
    /\ out.op = "notify"
    /\ \E e \in out.events :
          /\ \E f \in Fds \ Live : f < e.fd
          /\ \E g \in DOMAIN files :
                /\ files[g].kind = "Setting"
                /\ files[g].socket_handle = files[e.fd].socket_handle

====
